---- MODULE Spec2Model ----
(***************************************************************************)
(* A model of mpow/load_data.py: the cell extractors, the region scan      *)
(* (sheet_to_dataframe), the two series loaders, the joins, the daily      *)
(* aggregation and the integrity report.                                   *)
(*                                                                         *)
(* Values.  A spreadsheet cell value is EMPTY (the text '') or Num(v).  A  *)
(* table value is Num(v) or NaN.  Integer-only columns (Patient, Ordinal,  *)
(* DayStart, DayNum, NumObs) are plain integers.                           *)
(***************************************************************************)
EXTENDS Integers, Sequences, FiniteSets, TLC

VARIABLES
    op,          \* the top-level call being run: [name, source]
    todo,        \* the steps of the call still to run, in program order
    status,      \* "running", "done" or "raised"
    io,          \* the I/O steps performed so far, in order
    wb,          \* the workbook cells read so far, by <<file, sheet name>>
    detail_file, \* the patient-detail input read so far, by source
    row, col,    \* sheet_to_dataframe: the loop variables (the cell visited last)
    visited,     \* sheet_to_dataframe: the cells visited so far, in order
    cell,        \* sheet_to_dataframe: the cell last read
    cell_data,   \* sheet_to_dataframe: what the extractor returned for it
    data,        \* sheet_to_dataframe: the records appended so far
    scores, intake, details,   \* the loaded tables
    intraday, daily, day_counts, \* the derived tables
    store,       \* the HDF file: "absent" or a function key -> table
    build        \* number of setup_hdf runs started

vars == <<op, todo, status, io, wb, detail_file, row, col, visited, cell, cell_data, data,
          scores, intake, details, intraday, daily, day_counts, store, build>>

(***************************************************************************)
(* Bounds of the model.  The code scans 155 x 202 cells of the pain-score  *)
(* sheet and 154 x 28 cells of the intake sheet; the model scans           *)
(* NumRows x NumCols cells of the former and (NumRows - 1) x NumCols of    *)
(* the latter, keeping the one-row difference.                             *)
(***************************************************************************)
NumRows == 2
NumCols == 2
\* The inputs hold at most MaxRecords records in all: workbook cells that
\* yield a record, and rows of the patient-detail tables.
MaxRecords == 3
\* setup_hdf is run at most MaxBuilds times.
MaxBuilds == 2

\* Excel colour indices (load_data.py:25-27); BG_OTHER is an index that is
\* none of the three (the one cell_bg_color's docstring shows).
BG_GREEN == 31
BG_ORANGE == 29
BG_RED == 10
BG_OTHER == 22

EMPTY == <<>>
Num(v) == <<"num", v>>
NaN == <<"nan">>
None == <<>>

Cell(value, colour) == [value |-> value, colour |-> colour]

\* cell_bg_color: the background colour index of the cell.
cell_bg_color(c) == c.colour

\* Mutant: `if cell.value:` in place of `if not cell.value == '':`.
intake_extractor_truthy(r, c, cl) ==
    IF ~(cl.value = EMPTY) /\ ~(cl.value = Num(0))
    THEN <<r, c - 4, cl.value>>
    ELSE None

\* intake_extractor(row, col, cell, wb)
intake_extractor(r, c, cl) ==
    IF ~(cl.value = EMPTY)
    THEN <<r, c - 4, cl.value>>
    ELSE None

\* Mutant: the null-day record carries DayStart 0.
pain_score_extractor_null0(r, c, cl) ==
    LET cell_color == cell_bg_color(cl)
    IN  IF ~(cl.value = EMPTY)
        THEN <<r, c - 15, cl.value, IF cell_color = BG_ORANGE THEN 1 ELSE 0>>
        ELSE IF cell_color = BG_RED
             THEN <<r, c - 15, NaN, 0>>
             ELSE None

\* pain_score_extractor(row, col, cell, wb)
pain_score_extractor(r, c, cl) ==
    LET cell_color == cell_bg_color(cl)
    IN  IF ~(cl.value = EMPTY)
        THEN <<r, c - 15, cl.value, IF cell_color = BG_ORANGE THEN 1 ELSE 0>>
        ELSE IF cell_color = BG_RED
             THEN <<r, c - 15, NaN, 1>>
             ELSE None

(***************************************************************************)
(* Sources (load_data.py:48-51) and sheet names.  A sheet name is the      *)
(* page prefix followed by the fixed sheet suffix.                         *)
(***************************************************************************)
FILE_PROTO == "MPOW-Data-20190206_xls.xls"
FILE_XL_DETAIL == "patient features.csv"
SHEET_INTAKE == "OMeq Intake"
SHEET_SCORES == "Pain Scores"
SHEET_DETAIL == "Data collection"
KEY_INTRADAY == "intraday"
KEY_DAILY == "daily"
KEY_DETAIL == "detail"

Source(file, page_prefix) == [file |-> file, page_prefix |-> page_prefix]
Retrospective == Source(FILE_PROTO, "RETROSPECTIVE")
Protocol == Source(FILE_PROTO, "PROTOCOL")
KnownSources == {Retrospective, Protocol}
NoSource == Source("", "")

\* str.lower() on the page prefixes in use.
lower(page_prefix) ==
    CASE page_prefix = "RETROSPECTIVE" -> "retrospective"
      [] page_prefix = "PROTOCOL" -> "protocol"
      [] page_prefix = "PILOT" -> "pilot"
      [] OTHER -> page_prefix

\* source.page_prefix.lower() + '_' + key
StoreKey(source, key) == <<lower(source.page_prefix), key>>

SheetName(source, sheet) == <<source.page_prefix, sheet>>

(***************************************************************************)
(* The regions the loaders pass to sheet_to_dataframe.                     *)
(***************************************************************************)
\* Mutant: the intake scan starting one column to the left.
IntakeRegionFromColumn4 == [start |-> <<1, 4>>, num_rows |-> NumRows - 1, num_cols |-> NumCols]

IntakeRegion == [start |-> <<1, 5>>, num_rows |-> NumRows - 1, num_cols |-> NumCols]
ScoresRegion == [start |-> <<1, 16>>, num_rows |-> NumRows, num_cols |-> NumCols]

Region(sheet) == IF sheet = SHEET_INTAKE THEN IntakeRegion ELSE ScoresRegion

cell_extractor(sheet, r, c, cl) ==
    IF sheet = SHEET_INTAKE THEN intake_extractor(r, c, cl)
    ELSE pain_score_extractor(r, c, cl)

\* itertools.product(range(rows), range(cols)), line 116: the position the
\* iterator yields after (r, c).  Before the first one it stands left of the
\* first cell; it is exhausted when the next row is past the region.
BeforeFirst(reg) == <<reg.start[1], reg.start[2] - 1>>

\* Mutant: the loops nested the other way round (column-major).
NextCellColumnMajor(reg, r, c) ==
    IF c < reg.start[2] THEN <<reg.start[1], reg.start[2]>>
    ELSE IF r + 1 < reg.start[1] + reg.num_rows
         THEN <<r + 1, c>>
         ELSE <<reg.start[1], c + 1>>

NextCell(reg, r, c) ==
    IF c + 1 < reg.start[2] + reg.num_cols
    THEN <<r, c + 1>>
    ELSE <<r + 1, reg.start[2]>>

Exhausted(reg, r, c) == NextCell(reg, r, c)[1] >= reg.start[1] + reg.num_rows

(***************************************************************************)
(* Tables.  pandas.DataFrame(data, columns=...) names the tuple fields.    *)
(***************************************************************************)
DataFrame(sheet, t) ==
    IF sheet = SHEET_INTAKE
    THEN [Patient |-> t[1], DayNum |-> t[2], Intake |-> t[3]]
    ELSE [Patient |-> t[1], Ordinal |-> t[2], PainScore |-> t[3], DayStart |-> t[4]]

\* df[['Patient', 'DayStart']].groupby('Patient').cumsum() at row i: the sum
\* of DayStart over the rows 1..i of the same patient.
\* Mutant: cumsum() over the whole column, without the groupby.
RECURSIVE Cumsum(_, _, _)
Cumsum(df, p, i) ==
    IF i = 0 THEN 0 ELSE df[i].DayStart + Cumsum(df, p, i - 1)

RECURSIVE GroupCumsum(_, _, _)
GroupCumsum(df, p, i) ==
    IF i = 0 THEN 0
    ELSE (IF df[i].Patient = p THEN df[i].DayStart ELSE 0) + GroupCumsum(df, p, i - 1)

\* load_scores_data, line 236: df['DayNum'] = ...cumsum()
WithDayNum(df) ==
    [i \in 1..Len(df) |->
        [Patient |-> df[i].Patient, Ordinal |-> df[i].Ordinal,
         PainScore |-> df[i].PainScore, DayStart |-> df[i].DayStart,
         DayNum |-> GroupCumsum(df, df[i].Patient, i)]]

(***************************************************************************)
(* pandas operations used by the joins and the aggregation.                *)
(***************************************************************************)
RECURSIVE Flatten(_)
Flatten(ss) == IF ss = <<>> THEN <<>> ELSE Head(ss) \o Flatten(Tail(ss))

\* DataFrame.merge / pandas.merge: for each left row in order, one row per
\* matching right row; a left row without a match is kept, filled, when
\* how = "left" and dropped when how = "inner" (the pandas default).
merge(left, right, how, Match(_, _), Join(_, _), Fill(_)) ==
    Flatten([i \in 1..Len(left) |->
        LET m == SelectSeq(right, LAMBDA r : Match(left[i], r))
        IN  IF Len(m) = 0
            THEN (IF how = "left" THEN <<Fill(left[i])>> ELSE <<>>)
            ELSE [j \in 1..Len(m) |-> Join(left[i], m[j])]])

\* The elements of a finite set of integers in increasing order.
RECURSIVE Sorted(_)
Sorted(S) ==
    IF S = {} THEN <<>>
    ELSE LET m == CHOOSE x \in S : \A y \in S : x <= y
         IN  <<m>> \o Sorted(S \ {m})

\* The (Patient, DayNum) keys of a set in lexicographic order.
KeyLess(a, b) == a[1] < b[1] \/ (a[1] = b[1] /\ a[2] <= b[2])
RECURSIVE SortedKeys(_)
SortedKeys(S) ==
    IF S = {} THEN <<>>
    ELSE LET m == CHOOSE x \in S : \A y \in S : KeyLess(x, y)
         IN  <<m>> \o SortedKeys(S \ {m})

Range(f) == {f[i] : i \in DOMAIN f}

RECURSIVE SeqMax(_)
SeqMax(x) ==
    IF Len(x) = 1 THEN x[1]
    ELSE LET m == SeqMax(Tail(x)) IN IF x[1] >= m THEN x[1] ELSE m

\* df.groupby('Patient')[['DayNum']].max(): one row per patient present,
\* indexed by Patient in increasing order.
GroupMax(df) ==
    LET ps == Sorted({df[i].Patient : i \in DOMAIN df})
    IN  [k \in 1..Len(ps) |->
            LET g == SelectSeq(df, LAMBDA r : r.Patient = ps[k])
            IN  [Patient |-> ps[k], DayNum |-> SeqMax([i \in 1..Len(g) |-> g[i].DayNum])]]

\* Series reducers of daily_data's agg_funcs.
first(x) == x[1]

RECURSIVE NanSum(_)
NanSum(x) ==
    IF x = <<>> THEN 0
    ELSE (IF Head(x) = NaN THEN 0 ELSE Head(x)[2]) + NanSum(Tail(x))

\* Series.count(): the number of values that are not missing.
count(x) == Len(SelectSeq(x, LAMBDA v : v # NaN))

\* Mutant: sum(min_count=1), missing when no value is present.
sum_min_count_1(x) == IF count(x) = 0 THEN NaN ELSE Num(NanSum(x))

\* Series.sum(): missing values are skipped; the sum of none is 0.
sum(x) == Num(NanSum(x))

(***************************************************************************)
(* Calls.  A call is the sequence of its steps in program order; a nested  *)
(* call contributes its own steps in place.                                *)
(***************************************************************************)
Step(do, arg, source) == [do |-> do, arg |-> arg, source |-> source]

sheet_to_dataframe(sheet, source) ==
    <<Step("open_workbook", sheet, source), Step("scan", sheet, source)>>

load_intake_data(source) ==
    sheet_to_dataframe(SHEET_INTAKE, source)
        \o <<Step("load_intake_return", SHEET_INTAKE, source)>>

load_scores_data(source) ==
    sheet_to_dataframe(SHEET_SCORES, source)
        \o <<Step("load_scores_return", SHEET_SCORES, source)>>

load_detail_data(source) == <<Step("load_detail", SHEET_DETAIL, source)>>

intraday_data(source) ==
    load_scores_data(source) \o load_intake_data(source) \o load_detail_data(source)
        \o <<Step("merge", "", source)>>

daily_data(source) == intraday_data(source) \o <<Step("agg", "", source)>>

integrity_intraday_data(source) ==
    load_scores_data(source) \o load_intake_data(source)
        \o <<Step("day_counts", "", source)>>

\* _setup_hdf(source)
setup_hdf_source(source) ==
    intraday_data(source) \o daily_data(source) \o load_detail_data(source)
        \o <<Step("to_hdf", KEY_INTRADAY, source), Step("to_hdf", KEY_DAILY, source),
             Step("to_hdf", KEY_DETAIL, source)>>

setup_hdf ==
    <<Step("remove", "", NoSource)>> \o setup_hdf_source(Retrospective)
        \o setup_hdf_source(Protocol)

norm_detail_data(source) == <<Step("read_hdf", KEY_DETAIL, source)>>
norm_daily_data(source) == <<Step("read_hdf", KEY_DAILY, source)>>
norm_intraday_data(source) == <<Step("read_hdf", KEY_INTRADAY, source)>>

NoCell == <<>>
NoTable == <<>>

Running(do) == status = "running" /\ todo # <<>> /\ Head(todo).do = do

\* A step is over: the call is done when it was the last one.
Advance == /\ todo' = Tail(todo)
           /\ status' = IF Tail(todo) = <<>> THEN "done" ELSE "running"

Raise == todo' = <<>> /\ status' = "raised"

WbKey(st) == <<st.source.file, SheetName(st.source, st.arg)>>

(***************************************************************************)
(* sheet_to_dataframe, lines 113-115: open the workbook and find the       *)
(* sheet.  Both are I/O and either may raise (no file, no such sheet).     *)
(***************************************************************************)
OpenWorkbook ==
    /\ Running("open_workbook")
    /\ io' = Append(io, "open_workbook")
    /\ LET st == Head(todo)
           reg == Region(st.arg)
       IN  /\ row' = BeforeFirst(reg)[1]
           /\ col' = BeforeFirst(reg)[2]
           /\ visited' = <<>>
           /\ data' = <<>>
           /\ wb' = IF WbKey(st) \in DOMAIN wb THEN wb ELSE (WbKey(st) :> <<>>) @@ wb
    /\ Advance
    /\ UNCHANGED <<op, detail_file, cell, cell_data, scores, intake, details,
                   intraday, daily, day_counts, store, build>>

OpenWorkbookRaises ==
    /\ Running("open_workbook")
    /\ io' = Append(io, "open_workbook")
    /\ Raise
    /\ UNCHANGED <<op, wb, detail_file, row, col, visited, cell, cell_data, data, scores,
                   intake, details, intraday, daily, day_counts, store, build>>

(***************************************************************************)
(* sheet_to_dataframe, lines 116-119: one iteration of the loop.  The      *)
(* workbook is an input: a cell read for the first time takes any value of *)
(* `cells`, and keeps it for every later read.                             *)
(***************************************************************************)
Yields(sheet, cl) == cell_extractor(sheet, 1, 1, cl) # None

\* The number of cells read so far that yield a record.
WbRecords ==
    Cardinality(UNION {{<<k, pos>> : pos \in {q \in DOMAIN wb[k] : Yields(k[2][2], wb[k][q])}}
                        : k \in DOMAIN wb})

RECURSIVE TotalLen(_, _)
TotalLen(f, keys) ==
    IF keys = {} THEN 0
    ELSE LET k == CHOOSE x \in keys : TRUE
         IN  Len(f[k]) + TotalLen(f, keys \ {k})

\* The number of input records read so far.
InputRecords == WbRecords + TotalLen(detail_file, DOMAIN detail_file)

NewCells(sheet, cells) ==
    {cl \in cells[sheet] : InputRecords < MaxRecords \/ ~Yields(sheet, cl)}

ScanCell(cells) ==
    /\ Running("scan")
    /\ LET st == Head(todo)
           reg == Region(st.arg)
           sheet == wb[WbKey(st)]
           at == NextCell(reg, row, col)
       IN  /\ ~Exhausted(reg, row, col)
           /\ row' = at[1]
           /\ col' = at[2]
           /\ visited' = Append(visited, at)
           /\ \E cl \in (IF at \in DOMAIN sheet
                          THEN {sheet[at]} ELSE NewCells(st.arg, cells)) :
                 LET cd == cell_extractor(st.arg, at[1], at[2], cl)
                 IN  /\ wb' = [wb EXCEPT ![WbKey(st)] = (at :> cl) @@ @]
                     /\ cell' = cl
                     /\ cell_data' = cd
                     /\ data' = IF cd # None THEN Append(data, cd) ELSE data
    /\ UNCHANGED <<op, todo, status, io, detail_file, scores, intake, details,
                   intraday, daily, day_counts, store, build>>

\* sheet_to_dataframe, line 120: the loop is over.
ScanReturn ==
    /\ Running("scan")
    /\ Exhausted(Region(Head(todo).arg), row, col)
    /\ cell' = NoCell
    /\ cell_data' = None
    /\ Advance
    /\ UNCHANGED <<op, io, wb, detail_file, row, col, visited, data, scores, intake,
                   details, intraday, daily, day_counts, store, build>>

\* load_intake_data, lines 198-202
LoadIntakeReturn ==
    /\ Running("load_intake_return")
    /\ intake' = [i \in 1..Len(data) |-> DataFrame(SHEET_INTAKE, data[i])]
    /\ data' = <<>>
    /\ Advance
    /\ UNCHANGED <<op, io, wb, detail_file, row, col, visited, cell, cell_data, scores,
                   details, intraday, daily, day_counts, store, build>>

\* load_scores_data, lines 231-237
LoadScoresReturn ==
    /\ Running("load_scores_return")
    /\ scores' = WithDayNum([i \in 1..Len(data) |-> DataFrame(SHEET_SCORES, data[i])])
    /\ data' = <<>>
    /\ Advance
    /\ UNCHANGED <<op, io, wb, detail_file, row, col, visited, cell, cell_data, intake,
                   details, intraday, daily, day_counts, store, build>>

(***************************************************************************)
(* load_detail_data, lines 262-272.  The detail input (a csv file for the  *)
(* retrospective cohort, a workbook sheet for the protocol cohort) is an   *)
(* input like the workbook: read for the first time it is any table of     *)
(* DetailTables, and it stays that table.                                  *)
(***************************************************************************)
Str(v) == <<"str", v>>

RawDetail(p) ==
    ("Subject" :> p) @@ ("Age at Admit" :> Num(30 + p))
        @@ ("Gender" :> Str(IF p % 2 = 1 THEN "Female" ELSE "Male"))
        @@ ("Impairment Group" :> Str("Debility"))
        @@ ("Depression (1=Y, 0=N)" :> Num(p % 2))
        @@ ("Notes" :> Str(""))

\* One row per patient (spec.md, section 3: DetailRecord), for any subset
\* of the patients of the scanned rows.
DetailTables ==
    {[k \in 1..Len(Sorted(P)) |-> RawDetail(Sorted(P)[k])] : P \in SUBSET (1..NumRows)}

NewDetailTables == {df \in DetailTables : InputRecords + Len(df) <= MaxRecords}

\* Mutant: the else branch missing, any other source read like Protocol.
DetailBranchNoElse(source) ==
    IF source = Retrospective THEN "read_csv" ELSE "read_excel"

\* Lines 262-267: which input the source selects.
DetailBranch(source) ==
    IF source = Retrospective THEN "read_csv"
    ELSE IF source = Protocol THEN "read_excel"
    ELSE "raise"

DetailKey(source) ==
    IF DetailBranch(source) = "read_csv" THEN <<FILE_XL_DETAIL>>
    ELSE <<source.file, SheetName(source, SHEET_DETAIL)>>

\* Lines 268-272: rename the columns and keep the five of the detail table.
RenameDetail(df) ==
    [i \in 1..Len(df) |->
        [Patient |-> df[i]["Subject"], AgeAtAdmit |-> df[i]["Age at Admit"],
         Gender |-> df[i]["Gender"], ImpairmentGroup |-> df[i]["Impairment Group"],
         Depression |-> df[i]["Depression (1=Y, 0=N)"]]]

LoadDetail ==
    /\ Running("load_detail")
    /\ LET source == Head(todo).source
           key == DetailKey(source)
       IN  /\ DetailBranch(source) # "raise"
           /\ io' = Append(io, DetailBranch(source))
           /\ \E df \in (IF key \in DOMAIN detail_file
                        THEN {detail_file[key]} ELSE NewDetailTables) :
                 /\ detail_file' = (key :> df) @@ detail_file
                 /\ details' = RenameDetail(df)
    /\ Advance
    /\ UNCHANGED <<op, wb, row, col, visited, cell, cell_data, data, scores, intake,
                   intraday, daily, day_counts, store, build>>

\* The read raises (no such file or sheet).
LoadDetailReadRaises ==
    /\ Running("load_detail")
    /\ DetailBranch(Head(todo).source) # "raise"
    /\ io' = Append(io, DetailBranch(Head(todo).source))
    /\ Raise
    /\ UNCHANGED <<op, wb, detail_file, row, col, visited, cell, cell_data, data, scores,
                   intake, details, intraday, daily, day_counts, store, build>>

\* Line 267: raise ValueError('Unknown source')
LoadDetailUnknownSource ==
    /\ Running("load_detail")
    /\ DetailBranch(Head(todo).source) = "raise"
    /\ Raise
    /\ UNCHANGED <<op, io, wb, detail_file, row, col, visited, cell, cell_data, data, scores,
                   intake, details, intraday, daily, day_counts, store, build>>

(***************************************************************************)
(* intraday_data, line 310.                                                *)
(***************************************************************************)
NoDetail == [AgeAtAdmit |-> NaN, Gender |-> NaN, ImpairmentGroup |-> NaN,
             Depression |-> NaN]

\* scores.merge(intake, 'left', on=['Patient', 'DayNum'])
MergeIntake(sc, inta, how) ==
    merge(sc, inta, how,
          LAMBDA l, r : l.Patient = r.Patient /\ l.DayNum = r.DayNum,
          LAMBDA l, r : [Intake |-> r.Intake] @@ l,
          LAMBDA l : [Intake |-> NaN] @@ l)

\* .merge(details, 'left', on='Patient')
MergeDetails(df, det, how) ==
    merge(df, det, how,
          LAMBDA l, r : l.Patient = r.Patient,
          LAMBDA l, r : [AgeAtAdmit |-> r.AgeAtAdmit, Gender |-> r.Gender,
                         ImpairmentGroup |-> r.ImpairmentGroup,
                         Depression |-> r.Depression] @@ l,
          LAMBDA l : NoDetail @@ l)

\* Mutant: the joins made with how='inner'.
IntradayTableInner(sc, inta, det) ==
    MergeDetails(MergeIntake(sc, inta, "inner"), det, "inner")

IntradayTable(sc, inta, det) ==
    MergeDetails(MergeIntake(sc, inta, "left"), det, "left")

Merge ==
    /\ Running("merge")
    /\ intraday' = IntradayTable(scores, intake, details)
    /\ Advance
    /\ UNCHANGED <<op, io, wb, detail_file, row, col, visited, cell, cell_data, data, scores,
                   intake, details, daily, day_counts, store, build>>

(***************************************************************************)
(* daily_data, lines 343-353.                                              *)
(***************************************************************************)
Column(g, name) == [i \in 1..Len(g) |-> g[i][name]]

\* Mutant: the count taken of the PainScore column.
NumObsOfPainScore(g) == count(Column(g, "PainScore"))

\* 'Ordinal': lambda x: x.count(), renamed to NumObs
NumObs(g) == count([i \in 1..Len(g) |-> Num(g[i].Ordinal)])

\* 'PainScore': lambda x: x.sum()
DailyPainScore(g) == sum(Column(g, "PainScore"))

\* 'Intake': lambda x: x.values[0]
DailyIntake(g) == first(Column(g, "Intake"))

\* groupby(['Patient', 'DayNum']).agg(agg_funcs).reset_index().rename(...):
\* one row per key present, in key order.
DailyTable(df) ==
    LET keys == SortedKeys({<<df[i].Patient, df[i].DayNum>> : i \in DOMAIN df})
    IN  [k \in 1..Len(keys) |->
            LET g == SelectSeq(df, LAMBDA r : r.Patient = keys[k][1]
                                              /\ r.DayNum = keys[k][2])
            IN  [Patient |-> keys[k][1], DayNum |-> keys[k][2],
                 Intake |-> DailyIntake(g),
                 PainScore |-> DailyPainScore(g),
                 NumObs |-> NumObs(g),
                 AgeAtAdmit |-> first(Column(g, "AgeAtAdmit")),
                 Gender |-> first(Column(g, "Gender")),
                 ImpairmentGroup |-> first(Column(g, "ImpairmentGroup")),
                 Depression |-> first(Column(g, "Depression"))]]

Agg ==
    /\ Running("agg")
    /\ daily' = DailyTable(intraday)
    /\ Advance
    /\ UNCHANGED <<op, io, wb, detail_file, row, col, visited, cell, cell_data, data, scores,
                   intake, details, intraday, day_counts, store, build>>

(***************************************************************************)
(* integrity_intraday_data, lines 381-387.                                 *)
(***************************************************************************)
\* pandas.merge(..., left_index=True, right_index=True): how is left at the
\* pandas default.
DayCountsHow == "inner"

DayCounts(pain_scores, inta) ==
    merge(GroupMax(pain_scores), GroupMax(inta), DayCountsHow,
          LAMBDA l, r : l.Patient = r.Patient,
          LAMBDA l, r : [Patient |-> l.Patient, NumPainScoreDays |-> l.DayNum,
                         NumIntakeDays |-> r.DayNum],
          LAMBDA l : [Patient |-> l.Patient, NumPainScoreDays |-> l.DayNum,
                      NumIntakeDays |-> NaN])

IntegrityReport(pain_scores, inta) ==
    SelectSeq(DayCounts(pain_scores, inta),
              LAMBDA r : r.NumPainScoreDays # r.NumIntakeDays)

Integrity ==
    /\ Running("day_counts")
    /\ day_counts' = IntegrityReport(scores, intake)
    /\ Advance
    /\ UNCHANGED <<op, io, wb, detail_file, row, col, visited, cell, cell_data, data, scores,
                   intake, details, intraday, daily, store, build>>

(***************************************************************************)
(* The HDF file: whether it exists and, by key, the table it holds and the *)
(* setup_hdf run that wrote it.                                            *)
(***************************************************************************)
NoStore == [exists |-> FALSE, tables |-> <<>>]

TableOf(key) ==
    IF key = KEY_INTRADAY THEN intraday
    ELSE IF key = KEY_DAILY THEN daily
    ELSE details

\* setup_hdf, lines 407-408
RemoveStore ==
    /\ Running("remove")
    /\ io' = IF store.exists THEN io \o <<"exists", "remove">> ELSE Append(io, "exists")
    /\ store' = NoStore
    /\ Advance
    /\ UNCHANGED <<op, wb, detail_file, row, col, visited, cell, cell_data, data, scores,
                   intake, details, intraday, daily, day_counts, build>>

\* _setup_hdf, lines 397-399: one to_hdf
ToHdf ==
    /\ Running("to_hdf")
    /\ io' = Append(io, "to_hdf")
    /\ LET st == Head(todo)
       IN  store' = [exists |-> TRUE,
                     tables |-> (StoreKey(st.source, st.arg)
                                   :> [build |-> build, table |-> TableOf(st.arg)])
                                @@ store.tables]
    /\ Advance
    /\ UNCHANGED <<op, wb, detail_file, row, col, visited, cell, cell_data, data, scores,
                   intake, details, intraday, daily, day_counts, build>>

\* The write raises (the file cannot be written).
ToHdfRaises ==
    /\ Running("to_hdf")
    /\ io' = Append(io, "to_hdf")
    /\ Raise
    /\ UNCHANGED <<op, wb, detail_file, row, col, visited, cell, cell_data, data, scores,
                   intake, details, intraday, daily, day_counts, store, build>>

\* norm_*_data, lines 434, 466, 500: pandas.read_hdf
ReadHdf ==
    /\ Running("read_hdf")
    /\ io' = Append(io, "read_hdf")
    /\ LET st == Head(todo)
           key == StoreKey(st.source, st.arg)
       IN  /\ store.exists
           /\ key \in DOMAIN store.tables
           /\ intraday' = IF st.arg = KEY_INTRADAY THEN store.tables[key].table ELSE intraday
           /\ daily' = IF st.arg = KEY_DAILY THEN store.tables[key].table ELSE daily
           /\ details' = IF st.arg = KEY_DETAIL THEN store.tables[key].table ELSE details
    /\ Advance
    /\ UNCHANGED <<op, wb, detail_file, row, col, visited, cell, cell_data, data, scores,
                   intake, day_counts, store, build>>

\* read_hdf raises: no file, or no such key in it.
ReadHdfRaises ==
    /\ Running("read_hdf")
    /\ io' = Append(io, "read_hdf")
    /\ LET key == StoreKey(Head(todo).source, Head(todo).arg)
       IN  ~(store.exists /\ key \in DOMAIN store.tables)
    /\ Raise
    /\ UNCHANGED <<op, wb, detail_file, row, col, visited, cell, cell_data, data, scores,
                   intake, details, intraday, daily, day_counts, store, build>>

(***************************************************************************)
(* The cells a sheet may hold.                                             *)
(***************************************************************************)
ScoreCells ==
    {Cell(EMPTY, BG_OTHER), Cell(EMPTY, BG_RED),
     Cell(Num(3), BG_ORANGE), Cell(Num(3), BG_OTHER)}
IntakeCells == {Cell(EMPTY, BG_OTHER), Cell(Num(0), BG_OTHER), Cell(Num(5), BG_OTHER)}
LoadCells == (SHEET_SCORES :> ScoreCells) @@ (SHEET_INTAKE :> IntakeCells)
PipelineCells ==
    (SHEET_SCORES :> ScoreCells)
        @@ (SHEET_INTAKE :> {Cell(EMPTY, BG_OTHER), Cell(Num(5), BG_OTHER)})

Call(name, source) == [name |-> name, source |-> source]

InitCall(call, steps) ==
    /\ op = call
    /\ todo = steps
    /\ status = "running"
    /\ io = <<>>
    /\ wb = <<>>
    /\ detail_file = <<>>
    /\ row = 0 /\ col = 0 /\ visited = <<>>
    /\ cell = NoCell /\ cell_data = None /\ data = <<>>
    /\ scores = NoTable /\ intake = NoTable /\ details = NoTable
    /\ intraday = NoTable /\ daily = NoTable /\ day_counts = NoTable
    /\ store = NoStore
    /\ build = 0

(***************************************************************************)
(* SpecLoad: one call of load_scores_data or of load_intake_data.          *)
(***************************************************************************)
InitLoad ==
    \E s \in KnownSources :
        \/ InitCall(Call("load_scores_data", s), load_scores_data(s))
        \/ InitCall(Call("load_intake_data", s), load_intake_data(s))

NextLoad ==
    \/ OpenWorkbook
    \/ OpenWorkbookRaises
    \/ ScanCell(LoadCells)
    \/ ScanReturn
    \/ LoadIntakeReturn
    \/ LoadScoresReturn

SpecLoad == InitLoad /\ [][NextLoad]_vars

(***************************************************************************)
(* SpecIntraday, SpecDaily, SpecIntegrity: one call of intraday_data, of   *)
(* daily_data, of integrity_intraday_data on a known source.               *)
(***************************************************************************)
InitIntraday ==
    \E s \in KnownSources : InitCall(Call("intraday_data", s), intraday_data(s))

NextIntraday ==
    \/ OpenWorkbook
    \/ OpenWorkbookRaises
    \/ ScanCell(PipelineCells)
    \/ ScanReturn
    \/ LoadIntakeReturn
    \/ LoadScoresReturn
    \/ LoadDetail
    \/ LoadDetailReadRaises
    \/ Merge

SpecIntraday == InitIntraday /\ [][NextIntraday]_vars

InitDaily ==
    \E s \in KnownSources : InitCall(Call("daily_data", s), daily_data(s))

NextDaily ==
    \/ OpenWorkbook
    \/ OpenWorkbookRaises
    \/ ScanCell(PipelineCells)
    \/ ScanReturn
    \/ LoadIntakeReturn
    \/ LoadScoresReturn
    \/ LoadDetail
    \/ LoadDetailReadRaises
    \/ Merge
    \/ Agg

SpecDaily == InitDaily /\ [][NextDaily]_vars

InitIntegrity ==
    \E s \in KnownSources :
        InitCall(Call("integrity_intraday_data", s), integrity_intraday_data(s))

NextIntegrity ==
    \/ OpenWorkbook
    \/ OpenWorkbookRaises
    \/ ScanCell(PipelineCells)
    \/ ScanReturn
    \/ LoadIntakeReturn
    \/ LoadScoresReturn
    \/ Integrity

SpecIntegrity == InitIntegrity /\ [][NextIntegrity]_vars

(***************************************************************************)
(* SpecExtract: one call of a cell extractor on any cell of AllCells at    *)
(* any position of the scanned region.                                     *)
(***************************************************************************)
AllCells ==
    {Cell(v, c) : v \in {EMPTY, Num(0), Num(3)},
                  c \in {BG_GREEN, BG_ORANGE, BG_RED, BG_OTHER}}

Extract ==
    /\ Running("extract")
    /\ cell_data' = cell_extractor(Head(todo).arg, row, col, cell)
    /\ Advance
    /\ UNCHANGED <<op, io, wb, detail_file, row, col, visited, cell, data, scores,
                   intake, details, intraday, daily, day_counts, store, build>>

InitExtract ==
    \E sheet \in {SHEET_SCORES, SHEET_INTAKE} :
        \E r \in 1..NumRows, c \in 0..(NumCols - 1), cl \in AllCells :
            /\ op = Call(IF sheet = SHEET_SCORES THEN "pain_score_extractor"
                         ELSE "intake_extractor", NoSource)
            /\ todo = <<Step("extract", sheet, NoSource)>>
            /\ status = "running"
            /\ io = <<>>
            /\ wb = <<>>
            /\ detail_file = <<>>
            /\ row = r /\ col = Region(sheet).start[2] + c /\ visited = <<>>
            /\ cell = cl /\ cell_data = None /\ data = <<>>
            /\ scores = NoTable /\ intake = NoTable /\ details = NoTable
            /\ intraday = NoTable /\ daily = NoTable /\ day_counts = NoTable
            /\ store = NoStore
            /\ build = 0

NextExtract == Extract

SpecExtract == InitExtract /\ [][NextExtract]_vars

(***************************************************************************)
(* SpecSource: one call of any function that takes a Source, on a known    *)
(* source or on one that is neither of the two.  The HDF file is absent or *)
(* holds the six tables of an earlier run over blank sheets.               *)
(***************************************************************************)
Pilot == Source("pilot.xls", "PILOT")
AllSources == KnownSources \cup {Pilot}

AllKeys == {StoreKey(s, k) : s \in KnownSources, k \in {KEY_INTRADAY, KEY_DAILY, KEY_DETAIL}}

PriorStore == [exists |-> TRUE,
               tables |-> [k \in AllKeys |-> [build |-> 0, table |-> NoTable]]]

SourceCells ==
    (SHEET_SCORES :> {Cell(EMPTY, BG_OTHER), Cell(Num(3), BG_ORANGE)})
        @@ (SHEET_INTAKE :> {Cell(EMPTY, BG_OTHER), Cell(Num(5), BG_OTHER)})

SourceCalls(s) ==
    {<<Call("load_intake_data", s), load_intake_data(s)>>,
     <<Call("load_scores_data", s), load_scores_data(s)>>,
     <<Call("load_detail_data", s), load_detail_data(s)>>,
     <<Call("intraday_data", s), intraday_data(s)>>,
     <<Call("daily_data", s), daily_data(s)>>,
     <<Call("integrity_intraday_data", s), integrity_intraday_data(s)>>,
     <<Call("setup_hdf_source", s), setup_hdf_source(s)>>,
     <<Call("norm_detail_data", s), norm_detail_data(s)>>,
     <<Call("norm_daily_data", s), norm_daily_data(s)>>,
     <<Call("norm_intraday_data", s), norm_intraday_data(s)>>}

InitSource ==
    \E s \in AllSources : \E c \in SourceCalls(s) : \E st \in {NoStore, PriorStore} :
        /\ op = c[1]
        /\ todo = c[2]
        /\ status = "running"
        /\ io = <<>>
        /\ wb = <<>>
        /\ detail_file = <<>>
        /\ row = 0 /\ col = 0 /\ visited = <<>>
        /\ cell = NoCell /\ cell_data = None /\ data = <<>>
        /\ scores = NoTable /\ intake = NoTable /\ details = NoTable
        /\ intraday = NoTable /\ daily = NoTable /\ day_counts = NoTable
        /\ store = st
        /\ build = 1

NextSource ==
    \/ OpenWorkbook
    \/ OpenWorkbookRaises
    \/ ScanCell(SourceCells)
    \/ ScanReturn
    \/ LoadIntakeReturn
    \/ LoadScoresReturn
    \/ LoadDetail
    \/ LoadDetailReadRaises
    \/ LoadDetailUnknownSource
    \/ Merge
    \/ Agg
    \/ Integrity
    \/ ToHdf
    \/ ToHdfRaises
    \/ ReadHdf
    \/ ReadHdfRaises

SpecSource == InitSource /\ [][NextSource]_vars

(***************************************************************************)
(* SpecStore: setup_hdf, run up to MaxBuilds times, on an HDF file that    *)
(* holds the six tables of an earlier run.                                 *)
(***************************************************************************)
InitStore ==
    /\ op = Call("setup_hdf", NoSource)
    /\ todo = setup_hdf
    /\ status = "running"
    /\ io = <<>>
    /\ wb = <<>>
    /\ detail_file = <<>>
    /\ row = 0 /\ col = 0 /\ visited = <<>>
    /\ cell = NoCell /\ cell_data = None /\ data = <<>>
    /\ scores = NoTable /\ intake = NoTable /\ details = NoTable
    /\ intraday = NoTable /\ daily = NoTable /\ day_counts = NoTable
    /\ store = PriorStore
    /\ build = 1

\* setup_hdf is called again, after it returned or raised; the input files
\* and the HDF file are as the last run left them.
SetupHdfAgain ==
    /\ status # "running"
    /\ build < MaxBuilds
    /\ build' = build + 1
    /\ todo' = setup_hdf
    /\ status' = "running"
    /\ io' = <<>>
    /\ row' = 0 /\ col' = 0 /\ visited' = <<>>
    /\ cell' = NoCell /\ cell_data' = None /\ data' = <<>>
    /\ scores' = NoTable /\ intake' = NoTable /\ details' = NoTable
    /\ intraday' = NoTable /\ daily' = NoTable
    /\ UNCHANGED <<op, wb, detail_file, day_counts, store>>

NextStore ==
    \/ RemoveStore
    \/ OpenWorkbook
    \/ OpenWorkbookRaises
    \/ ScanCell(SourceCells)
    \/ ScanReturn
    \/ LoadIntakeReturn
    \/ LoadScoresReturn
    \/ LoadDetail
    \/ LoadDetailReadRaises
    \/ Merge
    \/ Agg
    \/ ToHdf
    \/ ToHdfRaises
    \/ SetupHdfAgain

SpecStore == InitStore /\ [][NextStore]_vars

(***************************************************************************)
(*                              Properties                                 *)
(***************************************************************************)
Done(name) == status = "done" /\ op.name = name

SamePatientBefore(df, j) == {i \in 1..(j - 1) : df[i].Patient = df[j].Patient}

Last(S) == CHOOSE x \in S : \A y \in S : y <= x

ReadNullDayCell ==
    /\ Running("scan") /\ Head(todo).arg = SHEET_SCORES /\ visited # <<>>
    /\ cell.value = EMPTY /\ cell.colour = BG_RED

\* C1 (as stated): pain_score_extractor turns a blank cell of the null-day
\* colour (red) at logical column c into (Patient, c, missing, DayStart = 0),
\* and in the table of load_scores_data that row has the DayNum of the
\* preceding row of the same patient.
C1_NullDayKeepsDayNum ==
    /\ ReadNullDayCell => cell_data = <<row, col - 15, NaN, 0>>
    /\ Done("load_scores_data") =>
        \A j \in 1..Len(scores) :
            (scores[j].PainScore = NaN /\ SamePatientBefore(scores, j) # {})
                => scores[j].DayNum = scores[Last(SamePatientBefore(scores, j))].DayNum

\* C1 (amended): pain_score_extractor turns a blank cell of the null-day
\* colour (red) at logical column c into (Patient, c, missing, DayStart = 1),
\* and in the table of load_scores_data that row has DayNum one more than the
\* preceding row of the same patient (1 when it is the patient's first row):
\* a null-day row advances DayNum.
C1_NullDayAdvancesDayNum ==
    /\ ReadNullDayCell => cell_data = <<row, col - 15, NaN, 1>>
    /\ Done("load_scores_data") =>
        \A j \in 1..Len(scores) :
            scores[j].PainScore = NaN =>
                /\ scores[j].DayStart = 1
                /\ scores[j].DayNum =
                     IF SamePatientBefore(scores, j) = {} THEN 1
                     ELSE scores[Last(SamePatientBefore(scores, j))].DayNum + 1

\* A null-day row follows a row of the same patient and has the next DayNum.
C1_Witness ==
    /\ Done("load_scores_data")
    /\ \E j \in 2..Len(scores) :
        /\ scores[j].PainScore = NaN
        /\ scores[j - 1].Patient = scores[j].Patient
        /\ scores[j - 1].DayNum = 1
        /\ scores[j].DayNum = 2

\* C5: in the table of load_scores_data, the DayNum of a row is the DayNum of
\* the preceding row of the same patient, plus 1 when the row is flagged
\* DayStart; so DayNum never decreases within a patient, the first DayStart
\* row of a patient has DayNum 1, and DayNum is the number of DayStart rows
\* of the same patient up to and including the row, whatever the rows of
\* other patients hold.
C5_DayNumPerPatient ==
    Done("load_scores_data") =>
        \A j \in 1..Len(scores) :
            LET before == SamePatientBefore(scores, j)
                flags == {i \in before \cup {j} : scores[i].DayStart = 1}
            IN  /\ before # {} =>
                    /\ scores[j].DayNum = scores[Last(before)].DayNum
                          + (IF scores[j].DayStart = 1 THEN 1 ELSE 0)
                    /\ scores[j].DayNum >= scores[Last(before)].DayNum
                /\ (scores[j].DayStart = 1 /\ flags = {j}) => scores[j].DayNum = 1
                /\ scores[j].DayNum = Cardinality(flags)

\* Two patients each start their day 1, and the second one's next row stays
\* in day 1.
C5_Witness ==
    /\ Done("load_scores_data")
    /\ Len(scores) = 3
    /\ scores[1].Patient = 1 /\ scores[1].DayStart = 1 /\ scores[1].DayNum = 1
    /\ scores[2].Patient = 2 /\ scores[2].DayStart = 1 /\ scores[2].DayNum = 1
    /\ scores[3].Patient = 2 /\ scores[3].DayStart = 0 /\ scores[3].DayNum = 1

LoadedSheet == IF op.name = "load_scores_data" THEN SHEET_SCORES ELSE SHEET_INTAKE

RowMajor(reg, k) ==
    <<reg.start[1] + ((k - 1) \div reg.num_cols), reg.start[2] + ((k - 1) % reg.num_cols)>>

LoadedKey == <<op.source.file, SheetName(op.source, LoadedSheet)>>

ExpectedData ==
    Flatten([k \in 1..Len(visited) |->
        LET cd == cell_extractor(LoadedSheet, visited[k][1], visited[k][2],
                                 wb[LoadedKey][visited[k]])
        IN  IF cd = None THEN <<>> ELSE <<cd>>])

LogicalColumn(r) == IF LoadedSheet = SHEET_SCORES THEN r.Ordinal ELSE r.DayNum

C10_RowMajorScan ==
    LET reg == Region(LoadedSheet)
        table == IF LoadedSheet = SHEET_SCORES THEN scores ELSE intake
    IN  /\ \A k \in 1..Len(visited) : visited[k] = RowMajor(reg, k)
        /\ Len(visited) <= reg.num_rows * reg.num_cols
        /\ Running("scan") => data = ExpectedData
        /\ (Running("load_scores_return") \/ Running("load_intake_return"))
            => (Len(visited) = reg.num_rows * reg.num_cols /\ data = ExpectedData)
        /\ status = "done" =>
            /\ Len(visited) = reg.num_rows * reg.num_cols
            /\ Len(table) = Len(ExpectedData)
            /\ \A i \in 1..Len(table) :
                /\ table[i].Patient = ExpectedData[i][1]
                /\ LogicalColumn(table[i]) = ExpectedData[i][2]
            /\ \A k \in 1..Len(visited) :
                 LET cl == wb[LoadedKey][visited[k]]
                     logical == visited[k][2] - reg.start[2] + 1
                 IN  Yields(LoadedSheet, cl) <=>
                        \E i \in 1..Len(table) :
                            /\ table[i].Patient = visited[k][1]
                            /\ LogicalColumn(table[i]) = logical
            /\ \A i \in 1..Len(table) :
                 LogicalColumn(table[i]) \in 1..reg.num_cols
            /\ \A i, j \in 1..Len(table) :
                 (i < j /\ table[i].Patient = table[j].Patient)
                    => LogicalColumn(table[i]) < LogicalColumn(table[j])
            /\ \A i, j \in 1..Len(table) :
                 (table[i].Patient = table[j].Patient
                    /\ LogicalColumn(table[i]) = LogicalColumn(table[j])) => i = j

\* The first cell of patient 1 was skipped and the second kept; patient 2's
\* first cell was kept.
C10_Witness ==
    /\ Done("load_scores_data")
    /\ Len(scores) = 2
    /\ scores[1].Patient = 1 /\ scores[1].Ordinal = 2
    /\ scores[2].Patient = 2 /\ scores[2].Ordinal = 1

ScoreColumns == {"Patient", "Ordinal", "PainScore", "DayStart", "DayNum"}
DetailColumns == {"AgeAtAdmit", "Gender", "ImpairmentGroup", "Depression"}

\* C4 (as stated): the report of integrity_intraday_data holds exactly the
\* patients whose largest DayNum differs between the two series, with both
\* values: a patient of either series whose maxima differ, or who has rows in
\* only one series, is in it, and a patient whose maxima are equal is not.
MaxDayNum(df, p) == SeqMax([i \in 1..Len(SelectSeq(df, LAMBDA r : r.Patient = p)) |->
                               SelectSeq(df, LAMBDA r : r.Patient = p)[i].DayNum])

PatientsOf(df) == {df[i].Patient : i \in DOMAIN df}

C4_ReportExact ==
    Done("integrity_intraday_data") =>
        LET both == PatientsOf(scores) \cap PatientsOf(intake)
            either == PatientsOf(scores) \cup PatientsOf(intake)
            differ == {p \in either :
                         p \notin both \/ MaxDayNum(scores, p) # MaxDayNum(intake, p)}
        IN  /\ PatientsOf(day_counts) = differ
            /\ \A i \in DOMAIN day_counts :
                 LET r == day_counts[i]
                 IN  /\ r.Patient \in PatientsOf(scores) =>
                          r.NumPainScoreDays = MaxDayNum(scores, r.Patient)
                     /\ r.Patient \in PatientsOf(intake) =>
                          r.NumIntakeDays = MaxDayNum(intake, r.Patient)

\* C6: the table of intraday_data holds the rows of the pain-score table, each
\* once and in the same order; a row whose (Patient, DayNum) has no intake
\* row has Intake missing, and otherwise the Intake of that intake row; a row
\* whose Patient has no detail record has the demographic fields missing, and
\* otherwise those of that record.
C6_LeftJoins ==
    Done("intraday_data") =>
        /\ Len(intraday) = Len(scores)
        /\ \A i \in 1..Len(intraday) :
            LET r == intraday[i]
                ins == {k \in DOMAIN intake : /\ intake[k].Patient = r.Patient
                                              /\ intake[k].DayNum = r.DayNum}
                ds == {k \in DOMAIN details : details[k].Patient = r.Patient}
            IN  /\ \A f \in ScoreColumns : r[f] = scores[i][f]
                /\ ins = {} => r.Intake = NaN
                /\ \A k \in ins : r.Intake = intake[k].Intake
                /\ ds = {} => \A f \in DetailColumns : r[f] = NaN
                /\ \A k \in ds : \A f \in DetailColumns : r[f] = details[k][f]

\* One pain-score row has an intake row, another has neither an intake row
\* nor a detail record.
C6_Witness ==
    /\ Done("intraday_data")
    /\ \E i, j \in 1..Len(intraday) :
        /\ intraday[i].Intake = Num(5)
        /\ intraday[j].Intake = NaN /\ intraday[j].Gender = NaN

GroupOf(df, p, d) == {i \in DOMAIN df : df[i].Patient = p /\ df[i].DayNum = d}

\* C7: the table of daily_data has one row for each (Patient, DayNum) of the
\* intraday table and no other, and NumObs of a row is the number of intraday
\* rows of its (Patient, DayNum), rows with a missing PainScore included.
C7_NumObs ==
    Done("daily_data") =>
        /\ {<<daily[k].Patient, daily[k].DayNum>> : k \in DOMAIN daily}
             = {<<intraday[i].Patient, intraday[i].DayNum>> : i \in DOMAIN intraday}
        /\ \A k, l \in DOMAIN daily :
             (daily[k].Patient = daily[l].Patient /\ daily[k].DayNum = daily[l].DayNum)
                => k = l
        /\ \A k \in DOMAIN daily :
             daily[k].NumObs
                = Cardinality(GroupOf(intraday, daily[k].Patient, daily[k].DayNum))

\* A day of two observations, the first of them a recorded empty day.
C7_Witness ==
    /\ Done("daily_data")
    /\ \E k \in DOMAIN daily :
        /\ daily[k].NumObs = 2
        /\ \E i \in GroupOf(intraday, daily[k].Patient, daily[k].DayNum) :
             intraday[i].PainScore = NaN

RECURSIVE PainScoreTotal(_, _)
PainScoreTotal(df, S) ==
    IF S = {} THEN 0
    ELSE LET i == CHOOSE x \in S : TRUE
         IN  (IF df[i].PainScore = NaN THEN 0 ELSE df[i].PainScore[2])
                + PainScoreTotal(df, S \ {i})

First(S) == CHOOSE x \in S : \A y \in S : x <= y

\* C8: in the table of daily_data, Intake of a row is the Intake of the first
\* intraday row of its (Patient, DayNum), missing when that is missing, and
\* PainScore is the sum of the PainScore values of the intraday rows of its
\* (Patient, DayNum), a missing value counting 0: 0 when all are missing.
C8_IntakeAndPainScore ==
    Done("daily_data") =>
        \A k \in DOMAIN daily :
            LET g == GroupOf(intraday, daily[k].Patient, daily[k].DayNum)
            IN  /\ g # {}
                /\ daily[k].Intake = intraday[First(g)].Intake
                /\ daily[k].PainScore = Num(PainScoreTotal(intraday, g))
                /\ (\A i \in g : intraday[i].PainScore = NaN)
                      => daily[k].PainScore = Num(0)

\* A day whose only PainScore is missing reports 0 and has no intake; another
\* day reports the intake 5.
C8_Witness ==
    /\ Done("daily_data")
    /\ \E k, l \in DOMAIN daily :
        /\ \A i \in GroupOf(intraday, daily[k].Patient, daily[k].DayNum) :
             intraday[i].PainScore = NaN
        /\ daily[k].PainScore = Num(0)
        /\ daily[k].Intake = NaN
        /\ daily[l].Intake = Num(5)
        /\ daily[l].PainScore = Num(3)


(***************************************************************************)
(* C2: a Source that is neither Retrospective nor Protocol.                *)
(***************************************************************************)
UnknownSource == op.source \notin KnownSources

\* C2 as stated: every operation that takes a Source rejects an unknown
\* Source with an error before any I/O step: it performs no I/O and never
\* returns.
C2_RejectedBeforeIO ==
    UnknownSource => io = <<>> /\ status # "done"

\* C2: load_detail_data rejects an unknown Source before any I/O;
\* intraday_data, daily_data and _setup_hdf fail on it too, but only once
\* the workbook of the two sheet loads has been opened, and they read no
\* detail input and leave the HDF file alone; the other operations do not
\* check the Source, and fail on it only in an I/O step.
C2_DetailRejectsUnknown ==
    UnknownSource =>
        /\ op.name = "load_detail_data" => io = <<>> /\ status # "done"
        /\ op.name \in {"intraday_data", "daily_data", "setup_hdf_source"} =>
              /\ status # "done"
              /\ Range(io) \subseteq {"open_workbook"}
              /\ Len(io) <= 2
              /\ \A k \in DOMAIN store.tables : store.tables[k].build = 0
        /\ op.name \notin {"load_detail_data", "intraday_data", "daily_data",
                           "setup_hdf_source"} =>
              (status = "raised" => io # <<>>)

\* intraday_data on the unknown source opened the workbook twice, loaded both
\* sheets with a record in them, and then raised in load_detail_data.
C2_Witness ==
    /\ UnknownSource
    /\ op.name = "intraday_data"
    /\ status = "raised"
    /\ Len(io) = 2
    /\ scores # <<>> /\ intake # <<>>

(***************************************************************************)
(* C3: the HDF file during and after setup_hdf.                            *)
(***************************************************************************)
\* C3 as stated: at every point of setup_hdf, after a failure at any step
\* included, the HDF file holds all six tables, all of one run: the earlier
\* one or the current one.
C3_AllOrNothing ==
    /\ store.exists
    /\ DOMAIN store.tables = AllKeys
    /\ \E b \in 0..build : \A k \in AllKeys : store.tables[k].build = b

(***************************************************************************)
(* C11: pain-score rows before a patient's first day start.                *)
(***************************************************************************)
\* Row j of df and all rows of its patient before it are unflagged.
BeforeFirstDayStart(df, j) ==
    \A i \in SamePatientBefore(df, j) \cup {j} : df[i].DayStart = 0

\* C11: every intake record has DayNum >= 1, and every pain-score row that
\* precedes its patient's first DayStart row has DayNum 0; in the table of
\* intraday_data such a row has Intake missing, matching no intake record;
\* and in the table of daily_data the rows of a patient before its first
\* DayStart form one group (Patient, DayNum 0) of their own, counted in its
\* NumObs and without intake.
C11_DayZeroRows ==
    /\ \A k \in DOMAIN intake : intake[k].DayNum >= 1
    /\ \A j \in DOMAIN scores :
         BeforeFirstDayStart(scores, j) <=> scores[j].DayNum = 0
    /\ \A j \in DOMAIN intraday :
         BeforeFirstDayStart(intraday, j) =>
            /\ intraday[j].DayNum = 0
            /\ intraday[j].Intake = NaN
            /\ \A k \in DOMAIN intake :
                 ~(intake[k].Patient = intraday[j].Patient
                     /\ intake[k].DayNum = intraday[j].DayNum)
    /\ Done("daily_data") =>
         \A j \in DOMAIN intraday :
            BeforeFirstDayStart(intraday, j) =>
                LET p == intraday[j].Patient
                    zero == {k \in DOMAIN daily : daily[k].Patient = p /\ daily[k].DayNum = 0}
                    early == {i \in DOMAIN intraday :
                                intraday[i].Patient = p /\ BeforeFirstDayStart(intraday, i)}
                IN  /\ Cardinality(zero) = 1
                    /\ \A k \in zero : /\ daily[k].NumObs = Cardinality(early)
                                       /\ daily[k].Intake = NaN

\* A patient with an observation before its first day start, then a day
\* start, and an intake record for day 1: the daily table has the patient's
\* day 0 without intake and its day 1 with the intake.
C11_Witness ==
    /\ Done("daily_data")
    /\ \E j \in DOMAIN intraday : \E k, l \in DOMAIN daily :
        /\ BeforeFirstDayStart(intraday, j)
        /\ intraday[j].Intake = NaN
        /\ \E i \in DOMAIN intake : intake[i].Patient = intraday[j].Patient
        /\ daily[k].Patient = intraday[j].Patient /\ daily[k].DayNum = 0
        /\ daily[k].Intake = NaN
        /\ daily[l].Patient = intraday[j].Patient /\ daily[l].DayNum = 1
        /\ daily[l].Intake = Num(5)
=============================================================================
